---- MODULE Spec2Model ----
(***************************************************************************)
(* A model of the JetBrains key fetcher (src/main.py): the pure functions  *)
(* validate_license, construct_urls, generate_dates and the extractor, and *)
(* the state machine of JetBrainsKeyFetcher.run().                         *)
(*                                                                         *)
(* Python strings are TLA+ strings (Len, SubSeq and \o apply to them).     *)
(* Strings of the module are ASCII, so two ASCII characters stand for the  *)
(* non-ASCII letters that matter to re.IGNORECASE:                         *)
(*    "$"  stands for U+212A KELVIN SIGN                                   *)
(*    "%"  stands for U+017F LATIN SMALL LETTER LONG S                     *)
(***************************************************************************)
EXTENDS Integers, Sequences, FiniteSets, TLC

VARIABLES
    \* ---- JetBrainsKeyFetcher.run() and the objects it works on
    pc,              \* position of run()
    all_licenses,    \* self.all_licenses
    cache0,          \* all_licenses right after load_cache (history)
    cache_file,      \* the persisted cache: [state |-> "absent" | "ok" | "corrupt", licenses]
    cache_writes,    \* number of times save_cache wrote the file
    output_file,     \* the report, a sequence of lines; a line starts with "- "
    total_licenses,  \* run()'s local counter
    summary,         \* <<>>, or <<total new, total cached>> once the summary is written
    returned,        \* <<>>, or <<the value run() returned>>
    github_token,    \* self.github_token is set (a token was configured)
    github,          \* self.github is set (the API client exists)
    dates,           \* dates of generate_dates() not yet processed
    cur_date,        \* run()'s loop variable date: the date being processed
    pending,         \* futures submitted to the pool and not completed
    github_tasks,    \* process_date's github_tasks not yet fetched
    found_licenses,  \* process_date's found_licenses
    server_licenses, \* run()'s server_licenses, the list check_license_servers returned
    server_i,        \* index of the next license server to probe
    strategy_i,      \* index of the next scraping strategy
    strategy_log,    \* outcome of every strategy invoked, in order
    crash,           \* "none", or the exception that left run()
    \* ---- one call of a pure function
    fn,              \* which function the call is of
    arg,             \* its arguments
    now,             \* datetime.now() during the call
    called,          \* the call has been made
    ret              \* its result ("none" before the call)

runVars == <<pc, all_licenses, cache0, cache_file, cache_writes, output_file,
             total_licenses, summary, returned, github_token, github, dates, cur_date, pending,
             github_tasks, found_licenses, server_licenses, server_i, strategy_i,
             strategy_log, crash>>
fnVars == <<fn, arg, now, called, ret>>
vars == <<runVars, fnVars>>

-----------------------------------------------------------------------------
(* Strings *)

Ch(s, i) == SubSeq(s, i, i)

\* the slice s[i-1:j] of Python: indices past the end are cut to the end
Slice(s, i, j) ==
    LET k == IF j > Len(s) THEN Len(s) ELSE j IN
    IF i > k THEN "" ELSE SubSeq(s, i, k)

StartsWith(s, p) == Len(s) >= Len(p) /\ SubSeq(s, 1, Len(p)) = p

\* the least element of a non-empty set of numbers
Least(S) == CHOOSE x \in S : \A y \in S : x <= y

\* str.find(sub, from): the first index >= i at which sub occurs in s, else 0
Find(s, sub, i) ==
    LET at == {k \in i..(Len(s) - Len(sub) + 1) : SubSeq(s, k, k + Len(sub) - 1) = sub}
    IN IF at = {} THEN 0 ELSE Least(at)

Contains(s, sub) == Find(s, sub, 1) # 0

\* str.replace(old, new, 1)
ReplaceFirst(s, old, new) ==
    LET i == Find(s, old, 1) IN
    IF i = 0 THEN s
    ELSE SubSeq(s, 1, i - 1) \o new \o SubSeq(s, i + Len(old), Len(s))

\* str.lstrip('/')
RECURSIVE LStripSlash(_)
LStripSlash(s) ==
    IF Len(s) > 0 /\ Ch(s, 1) = "/" THEN LStripSlash(SubSeq(s, 2, Len(s))) ELSE s

\* str.split(sep)[0]
SplitFirst(s, sep) ==
    LET i == Find(s, sep, 1) IN IF i = 0 THEN s ELSE SubSeq(s, 1, i - 1)

\* str.split(sep), all the parts
RECURSIVE Split(_, _)
Split(s, sep) ==
    LET i == Find(s, sep, 1) IN
    IF i = 0 THEN <<s>>
    ELSE <<SubSeq(s, 1, i - 1)>> \o Split(SubSeq(s, i + Len(sep), Len(s)), sep)

UpperLetters == "ABCDEFGHIJKLMNOPQRSTUVWXYZ"
LowerLetters == "abcdefghijklmnopqrstuvwxyz"
Digits == "0123456789"
Whitespace == {" ", "\t", "\n", "\r"}
KelvinSign == "$"
LongS == "%"

\* set(a list)
Range(xs) == {xs[i] : i \in 1..Len(xs)}

CharsOf(s) == {Ch(s, i) : i \in 1..Len(s)}

IndexIn(s, c) == Find(s, c, 1)

\* str.upper() of one character
UpperChar(c) ==
    IF IndexIn(LowerLetters, c) # 0 THEN Ch(UpperLetters, IndexIn(LowerLetters, c))
    ELSE IF c = LongS THEN "S"
    ELSE c

RECURSIVE Upper(_)
Upper(s) == IF Len(s) = 0 THEN "" ELSE UpperChar(Ch(s, 1)) \o Upper(SubSeq(s, 2, Len(s)))

\* ''.join(s.split())
RECURSIVE RemoveWhitespace(_)
RemoveWhitespace(s) ==
    IF Len(s) = 0 THEN ""
    ELSE (IF Ch(s, 1) \in Whitespace THEN "" ELSE Ch(s, 1))
         \o RemoveWhitespace(SubSeq(s, 2, Len(s)))

UpperSet == CharsOf(UpperLetters)
LowerSet == CharsOf(LowerLetters)
DigitSet == CharsOf(Digits)

\* the character class [A-Z0-9], with and without re.IGNORECASE: with it, the
\* class also matches the lower-case letters and the letters whose case folding
\* is an ASCII letter
InClass(c, ignorecase) ==
    \/ c \in UpperSet
    \/ c \in DigitSet
    \/ ignorecase /\ (c \in LowerSet \/ c \in {KelvinSign, LongS})

IsDigit(c) == c \in DigitSet

DigitVal(c) == IndexIn(Digits, c) - 1

RECURSIVE ToInt(_)
ToInt(s) == IF Len(s) = 0 THEN 0 ELSE 10 * ToInt(SubSeq(s, 1, Len(s) - 1)) + DigitVal(Ch(s, Len(s)))

RECURSIVE Rep(_, _)
Rep(c, n) == IF n = 0 THEN "" ELSE c \o Rep(c, n - 1)

-----------------------------------------------------------------------------
(* The key shapes: a pattern [A-Z0-9]{a}-[A-Z0-9]{b}-... is the sequence   *)
(* <<a, b, ...>> of its group lengths.                                     *)

\* the pattern written out, "X" for [A-Z0-9]: <<4, 4>> is "XXXX-XXXX"
RECURSIVE Mask(_)
Mask(groups) ==
    IF Len(groups) = 0 THEN ""
    ELSE Rep("X", groups[1]) \o (IF Len(groups) > 1 THEN "-" \o Mask(Tail(groups)) ELSE "")

\* self.license_patterns, the extractor's patterns
license_patterns ==
    <<Mask(<<5, 5, 5, 5, 5>>), Mask(<<4, 4, 4, 4>>), Mask(<<6, 6, 6>>), Mask(<<3, 6, 6>>)>>

\* validate_license's own list, each anchored with ^ and $
validate_patterns ==
    <<Mask(<<5, 5, 5, 5, 5>>), Mask(<<4, 4, 4, 4>>), Mask(<<6, 6, 6>>), Mask(<<3, 6, 6>>)>>

\* the pattern matches s at index i (a fixed-width pattern: no backtracking)
MatchAt(mask, s, i, ignorecase) ==
    /\ i + Len(mask) - 1 <= Len(s)
    /\ \A j \in 1..Len(mask) :
          IF Ch(mask, j) = "-" THEN Ch(s, i + j - 1) = "-"
          ELSE InClass(Ch(s, i + j - 1), ignorecase)

\* re.findall(pattern, content, re.IGNORECASE | re.MULTILINE): the matches from
\* left to right, each search starting where the match before it ended
RECURSIVE FindAllFrom(_, _, _)
FindAllFrom(mask, s, i) ==
    LET at == {k \in i..(Len(s) - Len(mask) + 1) : MatchAt(mask, s, k, TRUE)} IN
    IF at = {} THEN <<>>
    ELSE <<SubSeq(s, Least(at), Least(at) + Len(mask) - 1)>>
         \o FindAllFrom(mask, s, Least(at) + Len(mask))

FindAll(mask, s) == FindAllFrom(mask, s, 1)

\* re.match('^...$', s): $ matches at the end and before a final newline
FullMatch(mask, s) ==
    /\ MatchAt(mask, s, 1, FALSE)
    /\ \/ Len(s) = Len(mask)
       \/ Len(s) = Len(mask) + 1 /\ Ch(s, Len(s)) = "\n"

\* the loop "for pattern in self.license_patterns: licenses.extend(findall)"
RECURSIVE ExtractFrom(_, _)
ExtractFrom(patterns, content) ==
    IF Len(patterns) = 0 THEN <<>>
    ELSE FindAll(patterns[1], content) \o ExtractFrom(Tail(patterns), content)

Extract(content) == ExtractFrom(license_patterns, content)

-----------------------------------------------------------------------------
(* Dates: a date is <<year, month, day>>; datetime.now() is the record     *)
(* [date |-> <<y, m, d>>, midnight |-> the time of day is 00:00:00.000000] *)

IsLeap(y) == (y % 4 = 0 /\ y % 100 # 0) \/ y % 400 = 0

DaysInMonth(y, m) ==
    IF m = 2 THEN (IF IsLeap(y) THEN 29 ELSE 28)
    ELSE IF m \in {4, 6, 9, 11} THEN 30 ELSE 31

\* datetime(year, month, day) does not raise ValueError
ValidDate(y, m, d) == y \in 1..9999 /\ m \in 1..12 /\ d \in 1..DaysInMonth(y, m)

PrevDay(t) ==
    IF t[3] > 1 THEN <<t[1], t[2], t[3] - 1>>
    ELSE IF t[2] > 1 THEN <<t[1], t[2] - 1, DaysInMonth(t[1], t[2] - 1)>>
    ELSE <<t[1] - 1, 12, 31>>

\* today - timedelta(days=i)
RECURSIVE MinusDays(_, _)
MinusDays(t, i) == IF i = 0 THEN t ELSE MinusDays(PrevDay(t), i - 1)

DateLess(a, b) ==
    \/ a[1] < b[1]
    \/ a[1] = b[1] /\ a[2] < b[2]
    \/ a[1] = b[1] /\ a[2] = b[2] /\ a[3] < b[3]

Digit(n) == Ch(Digits, n + 1)
Pad2(n) == Digit((n \div 10) % 10) \o Digit(n % 10)
Pad4(n) == Digit((n \div 1000) % 10) \o Digit((n \div 100) % 10) \o Pad2(n)

\* date.strftime("%Y-%m-%d") and date.strftime("%m-%d")
StrfIso(t) == Pad4(t[1]) \o "-" \o Pad2(t[2]) \o "-" \o Pad2(t[3])
StrfMonthDay(t) == Pad2(t[2]) \o "-" \o Pad2(t[3])

\* re.search(r'EXP=([0-9]{4}-[0-9]{2}-[0-9]{2})', s).group(1), or "" when no match
RECURSIVE ExpirationFrom(_, _)
ExpirationFrom(s, i) ==
    IF i + 13 > Len(s) THEN ""
    ELSE IF /\ SubSeq(s, i, i + 3) = "EXP="
            /\ \A j \in 4..13 :
                  IF j \in {8, 11} THEN Ch(s, i + j) = "-" ELSE IsDigit(Ch(s, i + j))
         THEN SubSeq(s, i + 4, i + 13)
         ELSE ExpirationFrom(s, i + 1)

ExpirationMatch(s) == ExpirationFrom(s, 1)

\* datetime.strptime(text, '%Y-%m-%d') of a text of the shape dddd-dd-dd:
\* the date, or "ValueError"
Strptime(text) ==
    LET y == ToInt(SubSeq(text, 1, 4))
        m == ToInt(SubSeq(text, 6, 7))
        d == ToInt(SubSeq(text, 9, 10))
    IN IF ValidDate(y, m, d) THEN <<y, m, d>> ELSE "ValueError"

\* exp_date < datetime.now(), exp_date being a date at 00:00:00
BeforeNow(exp, clock) ==
    DateLess(exp, clock.date) \/ (exp = clock.date /\ ~clock.midnight)

ShapeOk(license_key) ==
    \E k \in 1..Len(validate_patterns) : FullMatch(validate_patterns[k], license_key)

\* a validate_license that leaves out the shape check of lines 361-370
validate_license_shapeless(raw, clock) ==
    LET license_key == Upper(RemoveWhitespace(raw))
        expiration_date == ExpirationMatch(license_key)
    IN ~(/\ expiration_date # ""
         /\ Strptime(expiration_date) # "ValueError"
         /\ BeforeNow(Strptime(expiration_date), clock))

validate_license(raw, clock) ==
    LET license_key == Upper(RemoveWhitespace(raw))
        expiration_date == ExpirationMatch(license_key)
    IN IF ~ShapeOk(license_key) THEN FALSE
       ELSE IF expiration_date # "" /\ Strptime(expiration_date) # "ValueError"
                 /\ BeforeNow(Strptime(expiration_date), clock)
            THEN FALSE
       ELSE TRUE

-----------------------------------------------------------------------------
(* str.format with keyword arguments: [ok |-> TRUE, text |-> the rendered  *)
(* string] or [ok |-> FALSE, error |-> the exception]. kwargs is a record. *)

IsNumber(s) == Len(s) > 0 /\ \A i \in 1..Len(s) : IsDigit(Ch(s, i))

RECURSIVE FormatFrom(_, _, _)
FormatFrom(t, i, kwargs) ==
    IF i > Len(t) THEN [ok |-> TRUE, text |-> ""]
    ELSE LET c == Ch(t, i)
             two == Slice(t, i, i + 1)
             close == Find(t, "}", i + 1)
             name == Slice(t, i + 1, close - 1)
             Then(piece, j) ==
                 LET rest == FormatFrom(t, j, kwargs) IN
                 IF rest.ok THEN [ok |-> TRUE, text |-> piece \o rest.text] ELSE rest
         IN IF two = "{{" THEN Then("{", i + 2)
            ELSE IF two = "}}" THEN Then("}", i + 2)
            ELSE IF c = "}" THEN [ok |-> FALSE, error |-> "ValueError"]
            ELSE IF c = "{" THEN
                 IF close = 0 THEN [ok |-> FALSE, error |-> "ValueError"]
                 ELSE IF name = "" \/ IsNumber(name) THEN [ok |-> FALSE, error |-> "IndexError"]
                 ELSE IF name \notin DOMAIN kwargs THEN [ok |-> FALSE, error |-> "KeyError"]
                 ELSE Then(kwargs[name], close + 1)
            ELSE Then(c, i + 1)

Format(t, kwargs) == FormatFrom(t, 1, kwargs)

-----------------------------------------------------------------------------
(* construct_urls *)

gitee_url(repo_name, sub_path) == "https://gitee.com/" \o repo_name \o "/" \o LStripSlash(sub_path)

github_blob_url(repo_name, sub_path) == "https://github.com/" \o repo_name \o "/" \o LStripSlash(sub_path)

raw_github_url(repo_name, sub_path) == "https://raw.githubusercontent.com/" \o repo_name \o "/main/" \o sub_path

\* list(dict.fromkeys(urls)): the first occurrence of each, in order
RECURSIVE DedupKeepOrder(_)
DedupKeepOrder(urls) ==
    IF Len(urls) <= 1 THEN urls
    ELSE LET h == Len(urls) \div 2
             left == DedupKeepOrder(SubSeq(urls, 1, h))
             right == DedupKeepOrder(SubSeq(urls, h + 1, Len(urls)))
             seen == {left[i] : i \in 1..Len(left)}
             Unseen(u) == u \notin seen
         IN left \o SelectSeq(right, Unseen)

\* the gitee branch up to the component variant
GiteeUrls(repo_name, path) ==
    IF StartsWith(path, "blob/") \/ StartsWith(path, "raw/")
    THEN <<gitee_url(repo_name, path),
           IF StartsWith(path, "blob/")
           THEN gitee_url(repo_name, ReplaceFirst(path, "blob/", "raw/"))
           ELSE gitee_url(repo_name, ReplaceFirst(path, "raw/", "blob/"))>>
    ELSE <<gitee_url(repo_name, "blob/master/" \o path),
           gitee_url(repo_name, "raw/master/" \o path),
           gitee_url(repo_name, path)>>

\* the component variant of the gitee branch: what it appends to urls, and the
\* exception it ends with ("none" when it ends normally)
ComponentUrls(date, repo_name, path_template, path) ==
    IF Contains(date, "-")
       /\ \E t \in {"{year}", "{month}", "{day}"} : Contains(path_template, t)
    THEN LET parts == Split(date, "-") IN
         IF Len(parts) # 3 THEN [urls |-> <<>>, exception |-> "ValueError"]
         ELSE LET c == Format(path_template,
                              [date |-> date, year |-> parts[1],
                               month |-> parts[2], day |-> parts[3]])
              IN IF ~c.ok THEN [urls |-> <<>>, exception |-> c.error]
                 ELSE IF c.text # path
                 THEN [urls |-> <<gitee_url(repo_name, c.text)>>, exception |-> "none"]
                 ELSE [urls |-> <<>>, exception |-> "none"]
    ELSE [urls |-> <<>>, exception |-> "none"]

GithubUrls(repo_name, path) ==
    IF StartsWith(path, "blob/")
    THEN <<github_blob_url(repo_name, path),
           raw_github_url(repo_name, ReplaceFirst(path, "blob/", ""))>>
    ELSE IF StartsWith(path, "raw/")
    THEN <<github_blob_url(repo_name, path),
           github_blob_url(repo_name, ReplaceFirst(path, "raw/", "blob/"))>>
    ELSE <<github_blob_url(repo_name, "blob/main/" \o path),
           raw_github_url(repo_name, path)>>

\* the try block: the urls list when the block ends, and the exception it ends
\* with ("none" when it runs to its end)
TryBlock(date, source) ==
    LET rendered == Format(source.path, [date |-> date]) IN
    IF ~rendered.ok THEN [urls |-> <<>>, exception |-> rendered.error]
    ELSE IF source.type = "gitee"
         THEN LET component == ComponentUrls(date, source.name, source.path, rendered.text)
              IN [urls |-> GiteeUrls(source.name, rendered.text) \o component.urls,
                  exception |-> component.exception]
    ELSE IF source.type = "github"
         THEN [urls |-> GithubUrls(source.name, rendered.text), exception |-> "none"]
    ELSE [urls |-> <<>>, exception |-> "none"]

\* a construct_urls whose try block has no except clause
construct_urls_uncaught(date, source) ==
    LET t == TryBlock(date, source) IN
    IF t.exception # "none" THEN [raised |-> t.exception, value |-> <<>>]
    ELSE [raised |-> "none", value |-> DedupKeepOrder(t.urls)]

\* construct_urls: "except Exception" catches whatever the try block raises, and
\* the list built so far is deduplicated and returned.
\* The result is [raised |-> the exception leaving the call or "none", value |-> the list]
construct_urls(date, source) ==
    [raised |-> "none", value |-> DedupKeepOrder(TryBlock(date, source).urls)]

\* self.sources
sources ==
    << [type |-> "gitee", name |-> "pengzhile/ide-eval-resetter", path |-> "data/{date}.txt"],
       [type |-> "gitee", name |-> "superbeyone/J2_B5_A5_C4", path |-> "licenses/2025/{date}.md"],
       [type |-> "gitee", name |-> "pengzhile/ide-eval-resetter", path |-> "data/licenses_{date}.txt"],
       [type |-> "gitee", name |-> "superbeyone/J2_B5_A5_C4", path |-> "licenses/2024/{date}.md"],
       [type |-> "gitee", name |-> "pengzhile/ide-eval-resetter", path |-> "data/{date}.txt"],
       [type |-> "github", name |-> "jetlicense/keys", path |-> "keys/{date}.txt"],
       [type |-> "github", name |-> "idekeys/jetbrains", path |-> "licenses/{date}.md"],
       [type |-> "github", name |-> "labarmaley64/1ac-JetBrains-PyCharmc-ne", path |-> "README.md"],
       [type |-> "github", name |-> "0xbug/JLS", path |-> "README.md"] >>

\* process_date's loop over the sources: all_urls and github_tasks when the loop
\* ends, or the exception that leaves it. has_github is "self.github is set".
\* a process_date that sends every github source to the API
UsesApi_always(source, has_github) == source.type = "github"

\* line 410: source["type"] == "github" and self.github
UsesApi(source, has_github) == source.type = "github" /\ has_github

RECURSIVE CollectFrom(_, _, _, _, _)
CollectFrom(date, srcs, has_github, all_urls, tasks) ==
    IF Len(srcs) = 0
    THEN [raised |-> "none", all_urls |-> all_urls, github_tasks |-> tasks]
    ELSE LET source == Head(srcs) IN
         IF UsesApi(source, has_github)
         THEN LET path == Format(source.path, [date |-> date]) IN
              CollectFrom(date, Tail(srcs), has_github, all_urls,
                          IF path.ok THEN Append(tasks, <<source.name, path.text>>)
                          ELSE tasks)
         ELSE LET urls == construct_urls(date, source) IN
              IF urls.raised # "none"
              THEN [raised |-> urls.raised, all_urls |-> all_urls, github_tasks |-> tasks]
              ELSE CollectFrom(date, Tail(srcs), has_github, all_urls \o urls.value, tasks)

CollectUrls(date, srcs, has_github) == CollectFrom(date, srcs, has_github, <<>>, <<>>)

-----------------------------------------------------------------------------
(* generate_dates *)

\* a lookback that starts at yesterday
LookbackRange_from_one(days_back) == 1..(days_back - 1)

\* range(self.days_back)
LookbackRange(days_back) == 0..(days_back - 1)

\* range(current_year-2, current_year+2)
YearRange(current_year) == (current_year - 2)..(current_year + 1)

\* the first loop: two formats per day, most recent day first
RECURSIVE LookbackDates(_, _, _)
LookbackDates(today, i, n) ==
    IF i \notin LookbackRange(n) THEN <<>>
    ELSE <<StrfIso(MinusDays(today, i)), StrfMonthDay(MinusDays(today, i))>>
         \o LookbackDates(today, i + 1, n)

\* the second loop: the 1st and the 15th of every month of the years from..to
RECURSIVE YearDates(_, _)
YearDates(from, to) ==
    IF from > to THEN <<>>
    ELSE LET MonthDates(m) ==
                 (IF ValidDate(from, m, 1) THEN <<StrfIso(<<from, m, 1>>)>> ELSE <<>>)
                 \o (IF ValidDate(from, m, 15) THEN <<StrfIso(<<from, m, 15>>)>> ELSE <<>>)
         IN MonthDates(1) \o MonthDates(2) \o MonthDates(3) \o MonthDates(4)
            \o MonthDates(5) \o MonthDates(6) \o MonthDates(7) \o MonthDates(8)
            \o MonthDates(9) \o MonthDates(10) \o MonthDates(11) \o MonthDates(12)
            \o YearDates(from + 1, to)

\* list(set(dates)): the order of the list is the set's iteration order, which no
\* caller relies on; the model lists each string at its first occurrence
ListOfSet(xs) == DedupKeepOrder(xs)

generate_dates(days_back, today) ==
    LET years == YearRange(today[1]) IN
    ListOfSet(LookbackDates(today, 0, days_back)
              \o YearDates(CHOOSE y \in years : \A z \in years : y <= z,
                           CHOOSE y \in years : \A z \in years : y >= z))

-----------------------------------------------------------------------------
(* Entries, deduplication, sorting *)

\* f"{lic} | Source: {where} | Date: {datetime.now().strftime('%Y-%m-%d')}"
Entry(lic, where, clock) == lic \o " | Source: " \o where \o " | Date: " \o StrfIso(clock.date)

\* lic.split(' | ')[0]
key_part(lic) == SplitFirst(lic, " | ")

\* the loop "for lic in licenses: if self.validate_license(lic): append(entry)"
RECURSIVE ValidEntries(_, _, _)
ValidEntries(licenses, where, clock) ==
    IF Len(licenses) = 0 THEN <<>>
    ELSE (IF validate_license(Head(licenses), clock)
          THEN <<Entry(Head(licenses), where, clock)>> ELSE <<>>)
         \o ValidEntries(Tail(licenses), where, clock)

\* deduplicate_licenses of a list: the first entry of each key part, in order
RECURSIVE DeduplicateFrom(_, _, _)
DeduplicateFrom(licenses, seen_keys, unique_licenses) ==
    IF Len(licenses) = 0 THEN unique_licenses
    ELSE IF key_part(Head(licenses)) \notin seen_keys
         THEN DeduplicateFrom(Tail(licenses), seen_keys \cup {key_part(Head(licenses))},
                              Append(unique_licenses, Head(licenses)))
         ELSE DeduplicateFrom(Tail(licenses), seen_keys, unique_licenses)

deduplicate_licenses(licenses) == DeduplicateFrom(licenses, {}, <<>>)

\* deduplicate_licenses of a Python set, as run() calls it on process_date's
\* result: the set is iterated in an arbitrary order and the first entry seen of
\* each key part is kept, so any one entry per key part may be the one kept.
\* The results possible, each as the set of its elements.
RECURSIVE OnePerKey(_, _)
OnePerKey(keys, found) ==
    IF keys = {} THEN {{}}
    ELSE LET k == CHOOSE x \in keys : TRUE
         IN {{lic} \cup rest : lic \in {x \in found : key_part(x) = k},
                               rest \in OnePerKey(keys \ {k}, found)}

deduplicate_set(found) == OnePerKey({key_part(lic) : lic \in found}, found)

\* the order of Python's str comparison on the characters the model uses; the
\* two stand-ins come last, as U+017F and U+212A do
CharOrder ==
    " -./0123456789:=ABCDEFGHIJKLMNOPQRSTUVWXYZ_abcdefghijklmnopqrstuvwxyz{|}%$"

\* a < b: at the first index where they differ, or a a proper prefix of b
StrLess(a, b) ==
    LET n == IF Len(a) < Len(b) THEN Len(a) ELSE Len(b)
        differ == {i \in 1..n : Ch(a, i) # Ch(b, i)}
    IN IF differ = {} THEN Len(a) < Len(b)
       ELSE IndexIn(CharOrder, Ch(a, Least(differ))) < IndexIn(CharOrder, Ch(b, Least(differ)))

\* sorted(a set of strings)
RECURSIVE Sorted(_)
Sorted(S) ==
    IF S = {} THEN <<>>
    ELSE LET least == CHOOSE x \in S : \A y \in S \ {x} : StrLess(x, y)
         IN <<least>> \o Sorted(S \ {least})

\* set(found) - set([lic.split(' | ')[0] for lic in self.all_licenses]): the
\* found entries that are equal to no key part of an accepted entry
NewLicenses(found, accepted) == found \ {key_part(lic) : lic \in accepted}

-----------------------------------------------------------------------------
(* Fetching *)

\* a response is [html |-> Content-Type holds text/html, text |-> the body,
\* elements |-> the texts of the elements the selectors find, in their order]
RECURSIVE JoinLines(_)
JoinLines(elements) ==
    IF Len(elements) = 0 THEN ""
    ELSE Head(elements) \o "\n" \o JoinLines(Tail(elements))

ContentOf(response) ==
    IF response.html THEN JoinLines(response.elements) ELSE response.text

\* fetch_license_keys_web: outcome is "error" (a RequestException: timeout,
\* connection error, raise_for_status on a non-2xx status) or a response.
\* Every exception is caught: the result is a list, never an exception.
fetch_license_keys_web(url, outcome, clock) ==
    IF outcome = [error |-> TRUE] THEN <<>>
    ELSE ValidEntries(Extract(ContentOf(outcome)), url, clock)

\* fetch_license_keys_github: outcome is "error" (RateLimitExceededException
\* or another exception) or the decoded content of the file
fetch_license_keys_github(has_github, repo_name, path, outcome, clock) ==
    IF ~has_github THEN <<>>
    ELSE IF outcome = [error |-> TRUE] THEN <<>>
    ELSE ValidEntries(Extract(outcome.text), "GitHub " \o repo_name \o "/" \o path, clock)

\* self.license_servers
license_servers ==
    <<"https://jetlicense.nss.im", "https://license4j.com", "https://licenseserver.jetbrains.com">>

\* one iteration of check_license_servers' loop: the valid_licenses of the
\* server. outcome is "error" (an exception of session.get), a status other
\* than 200, or a 200 response
ServerLicenses(server_url, outcome, clock) ==
    IF outcome = [error |-> TRUE] \/ outcome.status # 200 THEN <<>>
    ELSE ValidEntries(Extract(outcome.text), "Server " \o server_url, clock)

\* self.scraping_strategies: each with the number of arguments it requires
scraping_strategies ==
    << [name |-> "scrape_github_search", required |-> 1],
       [name |-> "scrape_gitee_search", required |-> 1],
       [name |-> "scrape_forum_posts", required |-> 0],
       [name |-> "scrape_pastebin_sites", required |-> 0] >>

\* strategy(): a call with no argument of a method that requires one raises
\* TypeError; the stubs return []
CallStrategy(strategy) ==
    IF strategy.required > 0 THEN [raised |-> "TypeError", value |-> <<>>]
    ELSE [raised |-> "none", value |-> <<>>]

-----------------------------------------------------------------------------
(* One call of a pure function: the inputs are drawn in the initial state, *)
(* the call is one step.                                                   *)

MaxDaysBack == 4

\* run() has not been started
RunIdle ==
    /\ pc = "idle"
    /\ all_licenses = {}
    /\ cache0 = {}
    /\ cache_file = [state |-> "absent", licenses |-> {}]
    /\ cache_writes = 0
    /\ output_file = <<>>
    /\ total_licenses = 0
    /\ summary = <<>>
    /\ returned = <<>>
    /\ github_token = FALSE
    /\ github = FALSE
    /\ dates = {}
    /\ cur_date = "none"
    /\ pending = <<>>
    /\ github_tasks = <<>>
    /\ found_licenses = {}
    /\ server_licenses = <<>>
    /\ server_i = 1
    /\ strategy_i = 1
    /\ strategy_log = <<>>
    /\ crash = "none"

Clocks ==
    {[date |-> t, midnight |-> b] :
        t \in {<<2026, 11, 6>>, <<2024, 3, 1>>, <<2025, 1, 1>>, <<2026, 12, 31>>, <<2025, 6, 15>>},
        b \in BOOLEAN}

\* candidate keys: one of each canonical shape, then variants in case and
\* whitespace, a Kelvin sign, a long s, and two strings of no shape
CanonicalKeys ==
    {"ABCDE-FGHIJ-KLMNO-PQRST-UVWXY", "AAAA-BBBB-CCCC-DDDD",
     "ABCDEF-GHIJKL-MNOPQR", "A1B-2C3D4E-5F6G7H"}

CandidateKeys ==
    CanonicalKeys
    \cup {"aaaa-bbbb-cccc-dddd", " AAAA-bbbb-CCCC-dddd\n", "AAA$-BBBB-CCCC-DDDD",
          "%AAA-BBBB-CCCC-DDDD", "AAAA-BBBB-CCCC", "AAAA_BBBB_CCCC_DDDD"}

ExpirationTexts == {"2000-01-01", "2099-01-01", "2026-11-06", "2025-02-30"}

Candidates ==
    CandidateKeys \cup {k \o "|EXP=" \o e : k \in CanonicalKeys, e \in ExpirationTexts}

CallDates == {"2025-01-15", "01-15", "2026-11-06"}

\* path templates that reference a placeholder format(date=...) does not define
UndefinedPlaceholderTemplates ==
    {"data/{year}/{month}/{day}/{date}.txt", "data/{year}/{date}.txt",
     "keys/{day}.txt", "data/{name}.txt", "data/{}.txt"}

\* well-formed templates beside the ones of self.sources
OtherTemplates ==
    {"blob/master/{date}.txt", "raw/master/{date}.txt", "/data/{date}.txt",
     "data/{{year}}/{date}.txt", "README.md"}

\* malformed templates
MalformedTemplates == {"data/{date.txt", "data/{date}}.txt"}

CallSources ==
    {sources[i] : i \in 1..Len(sources)}
    \cup {[type |-> t, name |-> "owner/repo", path |-> p] :
             t \in {"gitee", "github"},
             p \in UndefinedPlaceholderTemplates \cup OtherTemplates \cup MalformedTemplates}

\* lists of sources for process_date's loop: self.sources, and lists in which a
\* source with a bad template comes before, between and after good ones
CallSourceLists ==
    {sources}
    \cup {<<[type |-> t, name |-> "owner/repo", path |-> p], sources[1], sources[8]>> :
             t \in {"gitee", "github"},
             p \in UndefinedPlaceholderTemplates \cup MalformedTemplates}
    \cup {<<sources[1], [type |-> t, name |-> "owner/repo", path |-> p], sources[8]>> :
             t \in {"gitee", "github"}, p \in UndefinedPlaceholderTemplates}

InitCall ==
    /\ RunIdle
    /\ called = FALSE
    /\ ret = "none"
    /\ now \in Clocks
    /\ \/ fn = "validate_license" /\ arg \in Candidates
       \/ /\ fn = "construct_urls"
          /\ arg \in [date : CallDates, source : CallSources]
          /\ now.date = <<2026, 11, 6>> /\ now.midnight = FALSE
       \/ /\ fn = "process_date_urls"
          /\ arg \in [date : CallDates, sources : CallSourceLists, github : BOOLEAN]
          /\ now.date = <<2026, 11, 6>> /\ now.midnight = FALSE
       \/ fn = "generate_dates" /\ arg \in 0..MaxDaysBack

CallValidateLicense ==
    /\ fn = "validate_license" /\ ~called
    /\ called' = TRUE
    /\ ret' = validate_license(arg, now)
    /\ UNCHANGED <<runVars, fn, arg, now>>

CallConstructUrls ==
    /\ fn = "construct_urls" /\ ~called
    /\ called' = TRUE
    /\ ret' = construct_urls(arg.date, arg.source)
    /\ UNCHANGED <<runVars, fn, arg, now>>

CallProcessDateUrls ==
    /\ fn = "process_date_urls" /\ ~called
    /\ called' = TRUE
    /\ ret' = CollectUrls(arg.date, arg.sources, arg.github)
    /\ UNCHANGED <<runVars, fn, arg, now>>

CallGenerateDates ==
    /\ fn = "generate_dates" /\ ~called
    /\ called' = TRUE
    /\ ret' = generate_dates(arg, now.date)
    /\ UNCHANGED <<runVars, fn, arg, now>>

NextCall ==
    \/ CallValidateLicense
    \/ CallConstructUrls
    \/ CallProcessDateUrls
    \/ CallGenerateDates

SpecCall == InitCall /\ [][NextCall]_vars

-----------------------------------------------------------------------------
(* JetBrainsKeyFetcher.run()                                               *)
(*                                                                         *)
(* The model runs with two of the nine sources (a gitee source whose path  *)
(* holds {date} and a github source whose path does not), with the first   *)
(* MaxDates dates of generate_dates(), and within one calendar day. A call *)
(* of process_date alone runs with a second github source beside them.     *)

MaxDates == 2

RunSources ==
    IF fn = "process_date" THEN <<sources[1], sources[8], sources[9]>>
    ELSE <<sources[1], sources[8]>>

RunClock == [date |-> <<2026, 11, 6>>, midnight |-> FALSE]

\* a representative time of day of the clock, as strftime('%H:%M:%S') gives it
TimeText(clock) == IF clock.midnight THEN "00:00:00" ELSE "13:11:07"

\* the texts the web serves in the model
BodyScenarioA == "ABCDE-FGHIJ-KLMNO-PQRST-UVWXY some noise"
BodyVariants == "aaaa-bbbb-cccc-dddd\nAAAA-BBBB-CCCC-DDDD\nAAA$-BBBB-CCCC-DDDD|EXP=2000-01-01"

Failure == [error |-> TRUE]

\* what a GET of the URL may end with: a failure, always; under a raw URL of
\* gitee the file with the key variants, under a raw URL of github the file of
\* scenario A; under a blob URL of gitee an HTML page whose <pre> holds the file
WebOutcomes(url) ==
    {Failure}
    \cup (IF Contains(url, "gitee.com") /\ Contains(url, "/raw/")
          THEN {[html |-> FALSE, text |-> BodyVariants, elements |-> <<>>]}
          ELSE {})
    \cup (IF Contains(url, "raw.githubusercontent.com")
          THEN {[html |-> FALSE, text |-> BodyScenarioA, elements |-> <<>>]}
          ELSE {})
    \cup (IF Contains(url, "gitee.com") /\ Contains(url, "/blob/")
          THEN {[html |-> TRUE, text |-> "<html>", elements |-> <<BodyScenarioA>>]}
          ELSE {})

ApiOutcomes == {Failure, [text |-> BodyScenarioA]}

ServerOutcomes ==
    {Failure, [status |-> 404, text |-> ""], [status |-> 200, text |-> "License Server"],
     [status |-> 200, text |-> BodyScenarioA]}

\* the caches a run may start from: none, and the cache of an earlier run of the
\* same day that found the key of scenario A in the README of sources[8]
Caches ==
    {{},
     {Entry("ABCDE-FGHIJ-KLMNO-PQRST-UVWXY",
            "https://raw.githubusercontent.com/labarmaley64/1ac-JetBrains-PyCharmc-ne/main/README.md",
            RunClock)}}

\* line 61: Github(github_token) if github_token and Github else None; library
\* is "the import of the github package succeeded" (lines 23-27)
GithubClient(token, library) == token /\ library

\* the state after __init__: load_cache has filled all_licenses; the github
\* package is installed
Init ==
    /\ pc = "start"
    /\ cache0 \in Caches
    /\ all_licenses = cache0
    /\ cache_file = [state |-> IF cache0 = {} THEN "absent" ELSE "ok", licenses |-> cache0]
    /\ cache_writes = 0
    /\ output_file = <<>>
    /\ total_licenses = 0
    /\ summary = <<>>
    /\ returned = <<>>
    /\ github_token \in BOOLEAN
    /\ github = GithubClient(github_token, TRUE)
    /\ dates = {}
    /\ cur_date = "none"
    /\ pending = <<>>
    /\ github_tasks = <<>>
    /\ found_licenses = {}
    /\ server_licenses = <<>>
    /\ server_i = 1
    /\ strategy_i = 1
    /\ strategy_log = <<>>
    /\ crash = "none"
    /\ fn = "run" /\ arg = <<>> /\ now = RunClock /\ called = FALSE /\ ret = "none"

ReportHeader(clock) ==
    <<"JetBrains License Keys Report", "=============================", "",
      "Generated: " \o StrfIso(clock.date) \o " " \o TimeText(clock), "">>

\* "- {lic}" for each lic of a sequence
RECURSIVE KeyLines(_)
KeyLines(licenses) ==
    IF Len(licenses) = 0 THEN <<>>
    ELSE <<"- " \o Head(licenses)>> \o KeyLines(Tail(licenses))

\* the section run() appends for a set of new licenses
Section(title, new_licenses) == <<title>> \o KeyLines(Sorted(new_licenses)) \o <<"">>

SummaryLines(total, cached, clock) ==
    <<"", "Summary", "=======",
      "Total new licenses found: " \o ToString(total),
      "Total licenses in cache: " \o ToString(cached),
      "Processing completed: " \o StrfIso(clock.date) \o " " \o TimeText(clock)>>

\* the first n elements of a list
FirstN(xs, n) == SubSeq(xs, 1, IF n < Len(xs) THEN n ELSE Len(xs))

\* lines 494-507: the report is cleared (a failure is logged and the run goes
\* on), generate_dates() is called, the counters are set
RunStart ==
    /\ pc = "start"
    /\ \E ok \in BOOLEAN :
          output_file' = IF ok THEN ReportHeader(now) ELSE output_file
    /\ dates' = Range(FirstN(generate_dates(MaxDaysBack, now.date), MaxDates))
    /\ total_licenses' = 0
    /\ pc' = "probe"
    /\ UNCHANGED <<all_licenses, cache0, cache_file, cache_writes, summary, returned,
                   github_token, github, cur_date, pending, github_tasks, found_licenses,
                   server_licenses, server_i, strategy_i, strategy_log,
                   crash, fnVars>>

\* check_license_servers: one server per step; the first server that yields
\* valid licenses ends the probe with them, and the end of the list with []
ProbeServer ==
    /\ pc = "probe"
    /\ server_i <= Len(license_servers)
    /\ \E outcome \in ServerOutcomes :
          LET valid_licenses == ServerLicenses(license_servers[server_i], outcome, now) IN
          IF valid_licenses # <<>>
          THEN /\ server_licenses' = valid_licenses
               /\ server_i' = Len(license_servers) + 1
          ELSE /\ server_licenses' = <<>>
               /\ server_i' = server_i + 1
    /\ UNCHANGED <<pc, all_licenses, cache0, cache_file, cache_writes, output_file,
                   total_licenses, summary, returned, github_token, github, dates, cur_date, pending,
                   github_tasks, found_licenses, strategy_i, strategy_log,
                   crash, fnVars>>

\* the merge of lines 511-521 and 526-541: the licenses are added and counted,
\* then the section is appended; an exception of that write leaves run()
Merge(title, new_licenses, next_pc) ==
    IF new_licenses = {}
    THEN /\ pc' = next_pc
         /\ UNCHANGED <<all_licenses, total_licenses, output_file, crash>>
    ELSE /\ all_licenses' = all_licenses \cup new_licenses
         /\ total_licenses' = total_licenses + Cardinality(new_licenses)
         /\ \E ok \in BOOLEAN :
               IF ok
               THEN /\ output_file' = output_file \o Section(title, new_licenses)
                    /\ pc' = next_pc
                    /\ crash' = crash
               ELSE /\ output_file' = output_file
                    /\ pc' = "crashed"
                    /\ crash' = "OSError"

\* where run() goes on after a merge: the next date, or the strategies
AfterMerge(left) == IF left = {} THEN "strategies" ELSE "dates"

\* lines 510-521
MergeServers ==
    /\ pc = "probe"
    /\ server_i > Len(license_servers)
    /\ Merge("Licenses from Servers:",
             NewLicenses(Range(deduplicate_licenses(server_licenses)), all_licenses),
             AfterMerge(dates))
    /\ UNCHANGED <<cache0, cache_file, cache_writes, summary, returned, github_token, github, dates,
                   cur_date, pending, github_tasks, found_licenses, server_licenses,
                   server_i, strategy_i, strategy_log, fnVars>>

\* process_date, lines 404-422: the URLs of every source are built and one
\* fetch per URL is submitted to the pool
StartDate ==
    /\ pc = "dates"
    /\ \E d \in dates :
          LET collected == CollectUrls(d, RunSources, github) IN
          /\ cur_date' = d
          /\ IF collected.raised # "none"
             THEN /\ pc' = "crashed"
                  /\ crash' = collected.raised
                  /\ UNCHANGED <<pending, github_tasks>>
             ELSE /\ pc' = "pool"
                  /\ crash' = crash
                  /\ pending' = collected.all_urls
                  /\ github_tasks' = collected.github_tasks
    /\ found_licenses' = {}
    /\ UNCHANGED <<all_licenses, cache0, cache_file, cache_writes, output_file,
                   total_licenses, summary, returned, github_token, github, dates, server_licenses,
                   server_i, strategy_i, strategy_log, fnVars>>

RemoveAt(xs, i) == SubSeq(xs, 1, i - 1) \o SubSeq(xs, i + 1, Len(xs))

\* one future completes, in any order (as_completed), and its result is added
\* to found_licenses
FetchWeb ==
    /\ pc = "pool"
    /\ \E i \in 1..Len(pending) :
          \E outcome \in WebOutcomes(pending[i]) :
              /\ found_licenses' =
                     found_licenses \cup Range(fetch_license_keys_web(pending[i], outcome, now))
              /\ pending' = RemoveAt(pending, i)
    /\ UNCHANGED <<pc, all_licenses, cache0, cache_file, cache_writes, output_file,
                   total_licenses, summary, returned, github_token, github, dates, cur_date,
                   github_tasks, server_licenses, server_i, strategy_i, strategy_log,
                   crash, fnVars>>

\* an executor that does not wait for its futures at the end of the block
AllDone_nowait(futures) == TRUE

\* the with block of the executor ends when every future is done
AllDone(futures) == futures = <<>>

JoinPool ==
    /\ pc = "pool"
    /\ AllDone(pending)
    /\ pc' = "api"
    /\ UNCHANGED <<all_licenses, cache0, cache_file, cache_writes, output_file,
                   total_licenses, summary, returned, github_token, github, dates, cur_date, pending,
                   github_tasks, found_licenses, server_licenses, server_i, strategy_i,
                   strategy_log, crash, fnVars>>

\* lines 428-432: the API tasks, one after the other
FetchGithub ==
    /\ pc = "api"
    /\ github_tasks # <<>>
    /\ \E outcome \in ApiOutcomes :
          /\ found_licenses' =
                 found_licenses
                 \cup Range(fetch_license_keys_github(github, Head(github_tasks)[1],
                                                      Head(github_tasks)[2], outcome, now))
    /\ github_tasks' = Tail(github_tasks)
    /\ UNCHANGED <<pc, all_licenses, cache0, cache_file, cache_writes, output_file,
                   total_licenses, summary, returned, github_token, github, dates, cur_date, pending,
                   server_licenses, server_i, strategy_i, strategy_log, crash, fnVars>>

\* process_date returns; lines 526-543
MergeDate ==
    /\ pc = "api"
    /\ github_tasks = <<>>
    /\ \E kept \in deduplicate_set(found_licenses) :
          Merge("Licenses for " \o cur_date \o ":",
                NewLicenses(kept, all_licenses),
                AfterMerge(dates \ {cur_date}))
    /\ dates' = dates \ {cur_date}
    /\ UNCHANGED <<cache0, cache_file, cache_writes, summary, returned, github_token, github,
                   cur_date, pending, github_tasks, found_licenses, server_licenses,
                   server_i, strategy_i, strategy_log, fnVars>>

\* the loop of lines 547-552 without its try/except: the first exception
\* leaves run()
RunStrategy_uncaught ==
    /\ pc = "strategies"
    /\ strategy_i <= Len(scraping_strategies)
    /\ LET outcome == CallStrategy(scraping_strategies[strategy_i])
       IN  /\ strategy_log' = Append(strategy_log, outcome.raised)
           /\ IF outcome.raised = "none"
              THEN /\ strategy_i' = strategy_i + 1
                   /\ UNCHANGED <<pc, crash>>
              ELSE /\ pc' = "crashed"
                   /\ crash' = outcome.raised
                   /\ UNCHANGED strategy_i
    /\ UNCHANGED <<all_licenses, cache0, cache_file, cache_writes, output_file,
                   total_licenses, summary, returned, github_token, github, dates, cur_date, pending,
                   github_tasks, found_licenses, server_licenses, server_i, fnVars>>

\* lines 547-552: one strategy per step, its exception caught and logged
RunStrategy ==
    /\ pc = "strategies"
    /\ strategy_i <= Len(scraping_strategies)
    /\ strategy_log' = Append(strategy_log, CallStrategy(scraping_strategies[strategy_i]).raised)
    /\ strategy_i' = strategy_i + 1
    /\ UNCHANGED <<pc, all_licenses, cache0, cache_file, cache_writes, output_file,
                   total_licenses, summary, returned, github_token, github, dates, cur_date, pending,
                   github_tasks, found_licenses, server_licenses, server_i,
                   crash, fnVars>>

\* save_cache: a failure is logged and swallowed; it leaves the file as it was
\* (open failed) or cut short (the write failed)
SaveCache ==
    /\ pc = "strategies"
    /\ strategy_i > Len(scraping_strategies)
    /\ \/ /\ cache_file' = [state |-> "ok", licenses |-> all_licenses]
          /\ cache_writes' = cache_writes + 1
       \/ /\ cache_file' \in {cache_file, [state |-> "corrupt", licenses |-> {}]}
          /\ cache_writes' = cache_writes
    /\ pc' = "summary"
    /\ UNCHANGED <<all_licenses, cache0, output_file, total_licenses, summary, returned,
                   github_token, github, dates, cur_date, pending, github_tasks, found_licenses,
                   server_licenses, server_i, strategy_i, strategy_log,
                   crash, fnVars>>

\* lines 557-570: the summary is appended (a failure is logged) and run() returns
WriteSummary ==
    /\ pc = "summary"
    /\ \E ok \in BOOLEAN :
          IF ok
          THEN /\ output_file' =
                      output_file \o SummaryLines(total_licenses, Cardinality(all_licenses), now)
               /\ summary' = <<total_licenses, Cardinality(all_licenses)>>
          ELSE UNCHANGED <<output_file, summary>>
    /\ returned' = <<total_licenses>>
    /\ pc' = "done"
    /\ UNCHANGED <<all_licenses, cache0, cache_file, cache_writes, total_licenses, github_token, github,
                   dates, cur_date, pending, github_tasks, found_licenses,
                   server_licenses, server_i, strategy_i, strategy_log,
                   crash, fnVars>>

Next ==
    \/ RunStart
    \/ ProbeServer
    \/ MergeServers
    \/ StartDate
    \/ FetchWeb
    \/ JoinPool
    \/ FetchGithub
    \/ MergeDate
    \/ RunStrategy
    \/ SaveCache
    \/ WriteSummary

Spec == Init /\ [][Next]_vars

-----------------------------------------------------------------------------
(* One call of process_date, with three sources *)

InitDate ==
    /\ pc = "dates"
    /\ all_licenses = {}
    /\ cache0 = {}
    /\ cache_file = [state |-> "absent", licenses |-> {}]
    /\ cache_writes = 0
    /\ output_file = ReportHeader(RunClock)
    /\ total_licenses = 0
    /\ summary = <<>>
    /\ returned = <<>>
    /\ github_token \in BOOLEAN
    /\ \E library \in BOOLEAN : github = GithubClient(github_token, library)
    /\ \E d \in {"2026-11-06", "11-06"} : dates = {d}
    /\ cur_date = "none"
    /\ pending = <<>>
    /\ github_tasks = <<>>
    /\ found_licenses = {}
    /\ server_licenses = <<>>
    /\ server_i = Len(license_servers) + 1
    /\ strategy_i = 1
    /\ strategy_log = <<>>
    /\ crash = "none"
    /\ fn = "process_date" /\ arg = <<>> /\ now = RunClock /\ called = FALSE /\ ret = "none"

\* line 434: return found_licenses
ReturnDate ==
    /\ fn = "process_date" /\ ~called
    /\ pc = "api"
    /\ github_tasks = <<>>
    /\ called' = TRUE
    /\ ret' = found_licenses
    /\ UNCHANGED <<runVars, fn, arg, now>>

NextDate ==
    \/ StartDate
    \/ FetchWeb
    \/ JoinPool
    \/ FetchGithub
    \/ ReturnDate

SpecDate == InitDate /\ [][NextDate]_vars

-----------------------------------------------------------------------------
(* Properties of the pure functions, checked under SpecCall                *)

NoRepeat(xs) == \A i, j \in 1..Len(xs) : xs[i] = xs[j] => i = j

\* the date an expiration text names, written out
ExpirationDateOf(e) ==
    CASE e = "2000-01-01" -> <<2000, 1, 1>>
      [] e = "2099-01-01" -> <<2099, 1, 1>>
      [] e = "2026-11-06" -> <<2026, 11, 6>>

MarkedCandidates ==
    {[text |-> k \o "|EXP=" \o e, expires |-> ExpirationDateOf(e)] :
        k \in CanonicalKeys, e \in {"2000-01-01", "2099-01-01", "2026-11-06"}}

\* C4: validate_license, given a canonical-shape key followed by the marker
\* '|EXP=YYYY-MM-DD', rejects it when that date is strictly before the current
\* date and accepts it when the date is not before the current date.
C4_ExpirationMarkerDecides ==
    (called /\ fn = "validate_license") =>
        \A c \in MarkedCandidates :
            arg = c.text => (ret <=> ~DateLess(c.expires, now.date))

\* the path a template with date components expands to, written out
ExpandedPath(template, d) ==
    CASE template = "data/{year}/{month}/{day}/{date}.txt" /\ d = "2025-01-15"
             -> "data/2025/01/15/2025-01-15.txt"
      [] template = "data/{year}/{month}/{day}/{date}.txt" /\ d = "2026-11-06"
             -> "data/2026/11/06/2026-11-06.txt"
      [] template = "data/{year}/{date}.txt" /\ d = "2025-01-15"
             -> "data/2025/2025-01-15.txt"
      [] template = "data/{year}/{date}.txt" /\ d = "2026-11-06"
             -> "data/2026/2026-11-06.txt"

ComponentTemplates == {"data/{year}/{month}/{day}/{date}.txt", "data/{year}/{date}.txt"}

IsoCallDates == {"2025-01-15", "2026-11-06"}

\* C6: construct_urls returns no URL twice, and for a template that references
\* an undefined placeholder it returns the empty list instead of raising, so
\* that process_date still collects the URLs (or API tasks) of the other sources.
C6_UrlsUniqueAndNeverRaise ==
    /\ (called /\ fn = "construct_urls") =>
          /\ ret.raised = "none"
          /\ NoRepeat(ret.value)
          /\ arg.source.path \in UndefinedPlaceholderTemplates => ret.value = <<>>
    /\ (called /\ fn = "process_date_urls") =>
          /\ ret.raised = "none"
          /\ Len(arg.sources) = 3 =>
                /\ ("https://gitee.com/pengzhile/ide-eval-resetter/raw/master/data/"
                        \o arg.date \o ".txt") \in Range(ret.all_urls)
                /\ IF arg.github
                   THEN <<"labarmaley64/1ac-JetBrains-PyCharmc-ne", "README.md">>
                            \in Range(ret.github_tasks)
                   ELSE "https://raw.githubusercontent.com/labarmaley64/1ac-JetBrains-PyCharmc-ne/main/README.md"
                            \in Range(ret.all_urls)

\* a source with an undefined placeholder stands between two good ones, and the
\* URLs of both good ones were collected
C6_Witness ==
    /\ called /\ fn = "process_date_urls"
    /\ Len(arg.sources) = 3
    /\ arg.sources[2].path \in UndefinedPlaceholderTemplates
    /\ arg.sources[2].type = "gitee"
    /\ ~arg.github
    /\ Len(ret.all_urls) = 5

\* C7: construct_urls, called with an ISO date and a template that references
\* {year}, {month} or {day} beside {date}, returns a list that includes the URL
\* of the component-expanded path.
C7_ComponentVariantIncluded ==
    (/\ called /\ fn = "construct_urls"
     /\ arg.date \in IsoCallDates
     /\ arg.source.path \in ComponentTemplates) =>
        \E u \in Range(ret.value) : Contains(u, ExpandedPath(arg.source.path, arg.date))

\* the day number of a date, counted from 0001-01-01 = 1
DaysBeforeYear(y) == 365 * (y - 1) + ((y - 1) \div 4) - ((y - 1) \div 100) + ((y - 1) \div 400)

DaysBeforeMonth(y, m) ==
    <<0, 31, 59, 90, 120, 151, 181, 212, 243, 273, 304, 334>>[m]
    + (IF m > 2 /\ IsLeap(y) THEN 1 ELSE 0)

Ordinal(t) == DaysBeforeYear(t[1]) + DaysBeforeMonth(t[1], t[2]) + t[3]

\* s reads as the full ISO text YYYY-MM-DD of the date t
ReadsAsIso(s, t) ==
    /\ Len(s) = 10 /\ Ch(s, 5) = "-" /\ Ch(s, 8) = "-"
    /\ IsNumber(SubSeq(s, 1, 4)) /\ IsNumber(SubSeq(s, 6, 7)) /\ IsNumber(SubSeq(s, 9, 10))
    /\ ToInt(SubSeq(s, 1, 4)) = t[1]
    /\ ToInt(SubSeq(s, 6, 7)) = t[2]
    /\ ToInt(SubSeq(s, 9, 10)) = t[3]

\* s reads as the month-day text MM-DD of the date t
ReadsAsMonthDay(s, t) ==
    /\ Len(s) = 5 /\ Ch(s, 3) = "-"
    /\ IsNumber(SubSeq(s, 1, 2)) /\ IsNumber(SubSeq(s, 4, 5))
    /\ ToInt(SubSeq(s, 1, 2)) = t[2]
    /\ ToInt(SubSeq(s, 4, 5)) = t[3]

\* the calendar days whose day number is in lo..hi, searched in the years around today
DaysBetween(today, lo, hi) ==
    {t \in ((today[1] - 1)..today[1]) \X (1..12) \X (1..31) :
        /\ t[3] <= DaysInMonth(t[1], t[2])
        /\ Ordinal(t) >= lo /\ Ordinal(t) <= hi}

HasBothFormats(result, t) ==
    /\ \E s \in Range(result) : ReadsAsIso(s, t)
    /\ \E s \in Range(result) : ReadsAsMonthDay(s, t)

\* C8, as stated: generate_dates with days_back = N returns, for every day d
\* with today-N <= d <= today, both ends included, the ISO string and the
\* month-day string of d.
C8_LookbackBothEnds ==
    (called /\ fn = "generate_dates") =>
        \A t \in DaysBetween(now.date, Ordinal(now.date) - arg, Ordinal(now.date)) :
            HasBothFormats(ret, t)

\* C8, amended: generate_dates with days_back = N (N >= 0) returns, for every
\* day d with today-N < d <= today (the N most recent days, today included; no
\* day when N = 0), both the ISO string and the month-day string of d.
C8_LookbackLastNDays ==
    (called /\ fn = "generate_dates") =>
        /\ Cardinality(DaysBetween(now.date, Ordinal(now.date) - arg + 1, Ordinal(now.date))) = arg
        /\ \A t \in DaysBetween(now.date, Ordinal(now.date) - arg + 1, Ordinal(now.date)) :
              HasBothFormats(ret, t)

\* a lookback of three days or more from 1 March of a leap year: it reaches
\* 28 February through the 29th
C8_Witness ==
    /\ called /\ fn = "generate_dates"
    /\ arg >= 3
    /\ now.date = <<2024, 3, 1>>
    /\ "2024-02-29" \in Range(ret) /\ "02-28" \in Range(ret)

\* C9: generate_dates returns the ISO string of the 1st and of the 15th of every
\* month of every year from current_year-2 to current_year+2 inclusive, whatever
\* days_back is, and its result contains no string twice.
C9_YearWindowPlusMinusTwo ==
    (called /\ fn = "generate_dates") =>
        /\ \A y \in (now.date[1] - 2)..(now.date[1] + 2), m \in 1..12, d \in {1, 15} :
              \E s \in Range(ret) : ReadsAsIso(s, <<y, m, d>>)
        /\ NoRepeat(ret)

-----------------------------------------------------------------------------
(* Properties of run(), under Spec *)

\* the key texts of a set of entries
KeyTexts(licenses) == {key_part(lic) : lic \in licenses}

\* the normalized form of a key text: whitespace removed, upper-cased
Normalized(key) == Upper(RemoveWhitespace(key))

\* C1: starting from a cache with no repeated key text, no state of run() has
\* two entries of all_licenses with the same key text, whatever their
\* provenance annotations are
C1_OneEntryPerKeyText ==
    (\A a, b \in cache0 : key_part(a) = key_part(b) => a = b)
    => \A a, b \in all_licenses : key_part(a) = key_part(b) => a = b

\* the "- ..." lines of a list of report lines, without the "- "
RECURSIVE KeyLinesOf(_)
KeyLinesOf(lines) ==
    IF Len(lines) = 0 THEN {}
    ELSE (IF StartsWith(Head(lines), "- ")
          THEN {SubSeq(Head(lines), 3, Len(Head(lines)))} ELSE {})
         \cup KeyLinesOf(Tail(lines))

\* the lines a step appends to the report
Appended ==
    IF Len(output_file') > Len(output_file)
    THEN SubSeq(output_file', Len(output_file) + 1, Len(output_file'))
    ELSE <<>>

\* C2: a merge accepts only absent keys. In every step of the run after its
\* start, an entry added to all_licenses has a key text that no entry of
\* all_licenses had, the total-new counter grows by the number of entries
\* added, and no line is appended to the report for a key text that
\* all_licenses already had
C2_MergeAcceptsOnlyAbsentKeys ==
    [][pc # "start" =>
         /\ \A lic \in all_licenses' \ all_licenses :
               key_part(lic) \notin KeyTexts(all_licenses)
         /\ total_licenses' - total_licenses
               = Cardinality(all_licenses' \ all_licenses)
         /\ \A lic \in KeyLinesOf(Appended) :
               key_part(lic) \notin KeyTexts(all_licenses)]_vars

\* C3: the identity of a key is its normalized text. No two entries of
\* all_licenses, the entries of the cache left aside, have key texts that
\* differ and yet are equal once whitespace is removed and the letters are
\* upper-cased
C3_KeyIdentityIsNormalizedText ==
    \A a, b \in all_licenses \ cache0 :
        Normalized(key_part(a)) = Normalized(key_part(b)) => key_part(a) = key_part(b)

\* the lengths of the groups of a text between its dashes
RECURSIVE Lengths(_)
Lengths(parts) ==
    IF Len(parts) = 0 THEN <<>> ELSE <<Len(Head(parts))>> \o Lengths(Tail(parts))

\* the four canonical shapes, as the lengths of their groups
CanonicalShapes == {<<5, 5, 5, 5, 5>>, <<4, 4, 4, 4>>, <<6, 6, 6>>, <<3, 6, 6>>}

\* upper-case ASCII letters and ASCII digits
Alphanumerics == CharsOf(UpperLetters \o Digits)

\* the canonical shapes a text has: its groups have the lengths of the shape
\* and hold upper-case ASCII letters and ASCII digits only
ShapesOf(text) ==
    LET lengths == Lengths(Split(text, "-"))
        plain == \A i \in 1..Len(text) : Ch(text, i) = "-" \/ Ch(text, i) \in Alphanumerics
    IN {shape \in CanonicalShapes : lengths = shape /\ plain}

\* C5: every entry that a step of run() adds to all_licenses has a key text
\* whose normalized form has exactly one of the four canonical shapes
C5_AddedKeysAreCanonical ==
    [][\A lic \in all_licenses' \ all_licenses :
           Cardinality(ShapesOf(Normalized(key_part(lic)))) = 1]_vars

\* C5 happens: the run has ended and has added a key that the page held in
\* lower case, beside a key of another shape
C5_Witness ==
    /\ pc = "done"
    /\ \E lic \in all_licenses \ cache0 : key_part(lic) = "aaaa-bbbb-cccc-dddd"
    /\ \E lic \in all_licenses \ cache0 : Len(key_part(lic)) = 29

\* C10: a failed fetch, probe or strategy never ends run(): run() ends by an
\* exception only when a write of the report failed; when it returns, every
\* date has been processed and the summary, if its write succeeded, holds as
\* total the number of entries that the run added to all_licenses
C10_FailuresIsolatedAndTotalCorrect ==
    /\ pc = "crashed" => crash = "OSError"
    /\ pc = "done" => dates = {} /\ returned # <<>>
    /\ (pc = "done" /\ summary # <<>>)
          => summary[1] = Cardinality(all_licenses) - Cardinality(cache0)

\* the number of entries that the run has added to all_licenses
AddedByRun == Cardinality(all_licenses) - Cardinality(cache0)

\* C11: the counts of the summary are exact. When run() has returned, the
\* value it returned and the total written in the summary are the number of
\* entries the run added to all_licenses, and the cached count written in the
\* summary is the number of entries that save_cache persisted
C11_SummaryCountsExact ==
    pc = "done" =>
        /\ returned = <<AddedByRun>>
        /\ summary # <<>> => summary[1] = AddedByRun
        /\ (summary # <<>> /\ cache_writes = 1)
              => summary[2] = Cardinality(cache_file.licenses)

\* C12: a failed write of a section of the report loses only that write:
\* no exception leaves run()
C12_SectionWriteFailureDoesNotAbort ==
    pc # "crashed" /\ crash = "none"

\* C14: the join barrier. A step that changes all_licenses or the report is
\* taken while no fetch of the pool is in flight and no API task is left, so
\* after every fetch of the date has completed; and the fetches of a date are
\* submitted only when the date before it has been merged and no fetch is in
\* flight
C14_JoinBarrier ==
    [][/\ (all_licenses' # all_licenses \/ (output_file' # output_file /\ pc # "start"))
            => /\ pending = <<>> /\ pending' = <<>>
               /\ github_tasks = <<>>
               /\ pc \in {"probe", "api", "summary"}
       /\ Len(pending') > Len(pending)
            => /\ pending = <<>>
               /\ pc = "dates"
               /\ cur_date \notin dates
               /\ all_licenses' = all_licenses /\ output_file' = output_file]_vars

\* C14 happens: the fetches of a date have completed with keys, and the date
\* has been merged and its section written
C14_Witness ==
    /\ pc \in {"dates", "strategies"}
    /\ pending = <<>>
    /\ found_licenses # {}
    /\ found_licenses \cap all_licenses # {}
    /\ \E i \in 1..Len(output_file) : output_file[i] = "Licenses for " \o cur_date \o ":"

\* the API task of a github source for a date
ApiTask(source, date) == <<source.name, Format(source.path, [date |-> date]).text>>

PhasesInOrder ==
    /\ pc \in {"start", "probe"}
         => /\ all_licenses = cache0 /\ cur_date = "none"
            /\ pending = <<>> /\ github_tasks = <<>> /\ found_licenses = {}
    /\ cur_date # "none" => server_i > Len(license_servers)
    /\ pc \in {"pool", "api"} => cur_date \in dates
    /\ strategy_log # <<>>
         => /\ dates = {} /\ pending = <<>> /\ github_tasks = <<>>
            /\ pc \in {"strategies", "summary", "done"}
    /\ pc \in {"strategies", "summary", "done"} => dates = {}
    /\ cache_writes <= 1
    /\ cache_writes = 1
         => /\ pc \in {"summary", "done"}
            /\ cache_file = [state |-> "ok", licenses |-> all_licenses]
    /\ returned # <<>> => pc = "done"
    /\ summary # <<>> => pc = "done"

\* C16: every run goes through the phases in the order cache loaded, server
\* probe, every date, strategies, save_cache, summary, done: no date before
\* the end of the probe, no strategy before the last merge, save_cache once
\* and after all merges, the summary step after save_cache; and a run that
\* has ended has been through all of them
C16_PhaseOrderInEveryRun ==
    /\ PhasesInOrder
    /\ pc \notin {"start", "probe", "dates", "pool", "api", "strategies", "summary"}
         => /\ pc = "done"
            /\ dates = {}
            /\ Len(strategy_log) = Len(scraping_strategies)
            /\ returned # <<>>

StrategyOutcomes ==
    [i \in 1..Len(scraping_strategies) |-> CallStrategy(scraping_strategies[i]).raised]

\* C17: in the strategies phase the four registered strategies are invoked
\* once each and in registry order, whatever the earlier ones did: the k-th
\* invocation is of the k-th registered strategy and follows k-1 completed
\* ones; an exception of a strategy never leaves run(), and save_cache and
\* the summary step are reached only after all four have been invoked
C17_StrategiesFaultIsolated ==
    [][ /\ strategy_log' # strategy_log
            => /\ pc = "strategies" /\ pc' = "strategies"
               /\ strategy_i = Len(strategy_log) + 1
               /\ strategy_i <= Len(scraping_strategies)
               /\ strategy_log' = Append(strategy_log, StrategyOutcomes[strategy_i])
               /\ strategy_i' = strategy_i + 1
        /\ pc = "strategies"
            => /\ pc' \in {"strategies", "summary"}
               /\ crash' = crash
        /\ (pc = "strategies" /\ pc' = "summary")
            => strategy_log = StrategyOutcomes
        /\ (pc = "summary" /\ pc' # pc)
            => /\ pc' = "done"
               /\ strategy_log' = StrategyOutcomes
               /\ returned' # <<>> ]_vars

\* a run that ended with its summary written and its cache saved although
\* two strategies raised
C17_Witness ==
    /\ pc = "done"
    /\ strategy_log = <<"TypeError", "TypeError", "none", "none">>
    /\ summary # <<>>
    /\ cache_writes = 1

\* C18: every invocation that run() makes in the strategies phase completes
\* by returning an empty list, none ends in an exception, and no step of
\* that phase changes all_licenses
C18_EveryStrategyReturnsEmpty ==
    [][ /\ strategy_log' # strategy_log
            => /\ strategy_log' = Append(strategy_log, "none")
               /\ CallStrategy(scraping_strategies[strategy_i]).value = <<>>
        /\ pc = "strategies" => all_licenses' = all_licenses ]_vars

-----------------------------------------------------------------------------
(* server.py: the license server reads the report that run() wrote         *)

\* str.strip(): without the whitespace at both ends
Strip(s) ==
    LET inked == {i \in 1..Len(s) : Ch(s, i) \notin Whitespace} IN
    IF inked = {} THEN ""
    ELSE SubSeq(s, Least(inked), CHOOSE i \in inked : \A j \in inked : j <= i)

\* len(license_key) >= 16
MinKeyLength == 16

\* the body of load_licenses' loop for one line: the values it adds
LicenseOfLine(raw_line) ==
    LET line == Strip(raw_line)
        license_key == IF Contains(line, "|") THEN Strip(SplitFirst(line, "|")) ELSE line
    IN IF line = "" \/ StartsWith(line, "#") \/ StartsWith(line, "!")
          \/ StartsWith(line, "-") \/ StartsWith(line, "//")
       THEN {}
       ELSE IF Len(license_key) >= MinKeyLength THEN {license_key} ELSE {}

\* load_licenses: the file does not exist or is empty (lines = <<>>), the read
\* raises (readable is FALSE), or the sorted list of the values of the lines
load_licenses(lines, readable) ==
    IF lines = <<>> THEN <<>>
    ELSE IF ~readable THEN <<>>
    ELSE Sorted(UNION {LicenseOfLine(lines[i]) : i \in 1..Len(lines)})

\* the reports run() writes for the accepted entries of one date and of the
\* server probe, each part present or lost as its write went
ServedKeyUrl == construct_urls("2026-11-06", sources[1]).value[2]

ServerEntryPool ==
    {Entry("ABCDE-FGHIJ-KLMNO-PQRST-UVWXY", "Server " \o license_servers[1], RunClock)}

DateEntryPool ==
    {Entry("AAAA-BBBB-CCCC-DDDD", ServedKeyUrl, RunClock),
     Entry("aaaa-bbbb-cccc-dddd", ServedKeyUrl, RunClock),
     Entry("A1B-2C3D4E-5F6G7H", ServedKeyUrl, RunClock)}

ReportOf(header, from_servers, for_date, with_summary) ==
    (IF header THEN ReportHeader(RunClock) ELSE <<>>)
    \o (IF from_servers # {} THEN Section("Licenses from Servers:", from_servers) ELSE <<>>)
    \o (IF for_date # {} THEN Section("Licenses for 2026-11-06:", for_date) ELSE <<>>)
    \o (IF with_summary
        THEN SummaryLines(Cardinality(from_servers \cup for_date),
                          Cardinality(from_servers \cup for_date), RunClock)
        ELSE <<>>)

\* run() has returned and a request reaches the server
InitServer ==
    /\ \E header \in BOOLEAN, with_summary \in BOOLEAN,
          from_servers \in SUBSET ServerEntryPool, for_date \in SUBSET DateEntryPool :
          /\ all_licenses = from_servers \cup for_date
          /\ output_file = ReportOf(header, from_servers, for_date, with_summary)
          /\ total_licenses = Cardinality(from_servers \cup for_date)
          /\ summary = IF with_summary
                       THEN <<Cardinality(from_servers \cup for_date),
                              Cardinality(from_servers \cup for_date)>>
                       ELSE <<>>
          /\ server_licenses = Sorted(from_servers)
    /\ pc = "done"
    /\ cache0 = {}
    /\ cache_file = [state |-> "ok", licenses |-> all_licenses]
    /\ cache_writes = 1
    /\ returned = <<total_licenses>>
    /\ github_token = FALSE
    /\ github = FALSE
    /\ dates = {}
    /\ cur_date = "2026-11-06"
    /\ pending = <<>>
    /\ github_tasks = <<>>
    /\ found_licenses = {}
    /\ server_i = Len(license_servers) + 1
    /\ strategy_i = Len(scraping_strategies) + 1
    /\ strategy_log = <<"TypeError", "TypeError", "none", "none">>
    /\ crash = "none"
    /\ fn \in {"get_license", "list_licenses"}
    /\ arg \in [readable : BOOLEAN]
    /\ now = RunClock
    /\ called = FALSE
    /\ ret = "none"

\* GET /license
get_license ==
    /\ fn = "get_license" /\ ~called
    /\ LET licenses == load_licenses(output_file, arg.readable) IN
       IF licenses = <<>>
       THEN ret' = [status |-> 404, error |-> "No valid licenses available"]
       ELSE \E k \in 1..Len(licenses) :
               ret' = [status |-> 200, licenseKey |-> licenses[k],
                       total_licenses |-> Len(licenses)]
    /\ called' = TRUE
    /\ UNCHANGED <<runVars, fn, arg, now>>

\* GET /licenses
list_licenses ==
    /\ fn = "list_licenses" /\ ~called
    /\ LET licenses == load_licenses(output_file, arg.readable) IN
       ret' = [status |-> 200, licenses |-> licenses, count |-> Len(licenses)]
    /\ called' = TRUE
    /\ UNCHANGED <<runVars, fn, arg, now>>

NextServer ==
    \/ get_license
    \/ list_licenses

SpecServer == InitServer /\ [][NextServer]_vars

\* C13: the server serves only accepted keys. When the report can be read,
\* every value GET /licenses lists and every licenseKey GET /license returns
\* is the key text of an entry of all_licenses, and every key written to the
\* report is among the values GET /licenses lists
C13_ServerServesOnlyAcceptedKeys ==
    (called /\ arg.readable) =>
        /\ fn = "list_licenses" =>
              /\ Range(ret.licenses) \subseteq KeyTexts(all_licenses)
              /\ KeyTexts(KeyLinesOf(output_file)) \subseteq Range(ret.licenses)
        /\ (fn = "get_license" /\ ret.status = 200) =>
              ret.licenseKey \in KeyTexts(all_licenses)

====
